---- MODULE Spec2Model ----
(***************************************************************************)
(* A model of the client's Network service (src/src/services/Network.ts):  *)
(* the lobby join started by the constructor, the three room joins, the    *)
(* join sequence  initialize(),  and the handlers initialize() registers   *)
(* on the joined room (collection diffs, inbound messages, the coarse     *)
(* state-change handler), and the outbound send methods.                   *)
(*                                                                         *)
(* JavaScript runs every continuation and every callback to completion,    *)
(* so one action is one whole continuation or one whole callback.          *)
(***************************************************************************)
EXTENDS Integers, Sequences, FiniteSets, TLC

\* ----------------------------------------------------------------- bounds
\* Number of room joins the caller starts.
MaxJoins == 2
\* Number of notifications (collection diffs, inbound messages) delivered
\* and of outbound operations run.
MaxNotifs == 3
\* Number of {field, value} changes in one change notification.
MaxBatch == 2
\* Number of tables of a room.
MaxTables == 1

\* ------------------------------------------------------------ value sets
\* The server gives every successful join its own session id: the join
\* started i-th gets session id i.  The Players collection of a room is
\* keyed by session ids.
Keys == 1..MaxJoins
\* 0 stands for undefined (this.room, this.mySessionId before a join).
Undefined == 0
Names == {"", "Alice", "Bob"}
UserIds == {"u1"}
JoinKinds == {"joinOrCreatePublic", "joinCustomById", "createCustom"}

\* The Tables collection of a room is keyed by table ids; the entries of a
\* table's connectedUser array are client ids.
TableIds == 1..MaxTables
Users == {"a", "b"}
\* The chat entries the server appends.
ChatContents == {"hi", "bye"}
\* The store's numPlayer before any setNumPlayer.
NoCount == -1

\* A room handle is named by the index of the join call that yielded it.
RoomIds == 1..MaxJoins
SessionId(r) == r

\* --------------------------------------------------------------- state
VARIABLES
    lobbyCall,     \* the promise of joinLobbyRoom(): pending, resolved, rejected
    lobby,         \* this.lobby: undefined, joined, left
    lobbyJoined,   \* the store's lobbyJoined flag
    calls,         \* the join calls started so far, in start order
    room,          \* this.room: Undefined or the room handle
    myUserId,      \* this.myUserId
    mySessionId,   \* this.mySessionId
    webRTC,        \* this.webRTC
    handlers,      \* the room handles initialize() registered handlers on
    players,       \* players[r][k]: room r's snapshot of the Players collection
    tables,        \* tables[r][t]: room r's snapshot of the Tables collection
    chat,          \* chat[r]: the length of room r's snapshot of the chat log
    numPlayer,     \* the store's numPlayer, set by setNumPlayer
    playerNameMap, \* the store's playerNameMap: key -> name, "" for no entry
    sent,          \* the messages the last continuation or callback sent
    last,          \* the continuation or callback that ran last
    emitted,       \* what it emitted on the event bus and dispatched to the store
    raised,        \* whether it threw
    count          \* totals since construction

vars == <<lobbyCall, lobby, lobbyJoined, calls, room, myUserId, mySessionId,
          webRTC, handlers, players, tables, chat, numPlayer, playerNameMap,
          sent, last, emitted, raised, count>>

\* ------------------------------------------------------------- records
\* A player of a snapshot: whether it is in the collection, its name,
\* whether player.onChange is set, and whether its add came with a key
\* other than the local session id of that moment.
Absent == [present |-> FALSE, name |-> "", listener |-> FALSE, remote |-> FALSE]

\* A table of a snapshot: whether it is in the collection, whether it was
\* in the server's collection before the local client joined, whether
\* connectedUser.onAdd and connectedUser.onRemove are set, and its
\* connectedUser entries.
NoTable ==
    [present |-> FALSE, existing |-> FALSE, listeners |-> FALSE,
     connectedUser |-> {}]

Ev(type, key, field, value) ==
    [type |-> type, key |-> key, field |-> field, value |-> value]

Op(op, r, k, changes, payload) ==
    [op |-> op, room |-> r, key |-> k, changes |-> changes, payload |-> payload]

NoWebRTC == [made |-> FALSE, peers |-> {}, onCalledPeers |-> {}]
NewWebRTC == [made |-> TRUE, peers |-> {}, onCalledPeers |-> {}]

ZeroCount ==
    [notifs |-> 0, adds |-> 0, addsRemote |-> 0, removes |-> 0,
     removesRemote |-> 0, nameSets |-> 0, joined |-> 0, left |-> 0]

\* The number of events of one type in a sequence of events.
NumOf(evs, type) == Cardinality({i \in 1..Len(evs) : evs[i].type = type})

RECURSIVE Flatten(_)
Flatten(ss) == IF ss = <<>> THEN <<>> ELSE Head(ss) \o Flatten(Tail(ss))

\* ----------------------------------------------------------- construction
Init ==
    /\ lobbyCall = "pending"
    /\ lobby = "undefined"
    /\ lobbyJoined = FALSE
    /\ calls = <<>>
    /\ room = Undefined
    /\ myUserId = "undefined"
    /\ mySessionId = Undefined
    /\ webRTC = NoWebRTC
    /\ handlers = {}
    /\ players = [r \in RoomIds |-> [k \in Keys |-> Absent]]
    /\ tables = [r \in RoomIds |-> [t \in TableIds |-> NoTable]]
    /\ chat = [r \in RoomIds |-> 0]
    /\ numPlayer = NoCount
    /\ playerNameMap = [k \in Keys |-> ""]
    /\ sent = <<>>
    /\ last = Op("constructor", Undefined, Undefined, <<>>, "")
    /\ emitted = <<>>
    /\ raised = FALSE
    /\ count = ZeroCount

\* ------------------------------------------------------------ lobby join
\* joinLobbyRoom(): the await resolves, this.lobby is assigned, and the
\* constructor's then() dispatches setLobbyJoined(true).
LobbyResolve ==
    /\ lobbyCall = "pending"
    /\ lobbyCall' = "resolved"
    /\ lobby' = "joined"
    /\ lobbyJoined' = TRUE
    /\ last' = Op("joinLobbyRoom", Undefined, Undefined, <<>>, "")
    /\ emitted' = <<Ev("setLobbyJoined", Undefined, "", "")>>
    /\ raised' = FALSE
    /\ sent' = <<>>
    /\ UNCHANGED <<calls, room, myUserId, mySessionId, webRTC, handlers,
                   players, count>>
    /\ UNCHANGED <<tables, chat, numPlayer, playerNameMap>>

\* joinLobbyRoom(): the await rejects; this.lobby stays unassigned.
LobbyReject ==
    /\ lobbyCall = "pending"
    /\ lobbyCall' = "rejected"
    /\ last' = Op("joinLobbyRoom", Undefined, Undefined, <<>>, "")
    /\ emitted' = <<>>
    /\ raised' = TRUE
    /\ sent' = <<>>
    /\ UNCHANGED <<lobby, lobbyJoined, calls, room, myUserId, mySessionId,
                   webRTC, handlers, players, count>>
    /\ UNCHANGED <<tables, chat, numPlayer, playerNameMap>>

\* ------------------------------------------------------------- room joins
\* The caller starts a join: the method runs up to its await.
StartJoin(kind, userId) ==
    /\ Len(calls) < MaxJoins
    /\ calls' = Append(calls,
           [kind |-> kind, userId |-> userId, status |-> "pending",
            pendingAtStart |->
                {i \in 1..Len(calls) : calls[i].status = "pending"}])
    /\ last' = Op(kind, Undefined, Undefined, <<>>, "")
    /\ emitted' = <<>>
    /\ raised' = FALSE
    /\ sent' = <<>>
    /\ UNCHANGED <<lobbyCall, lobby, lobbyJoined, room, myUserId, mySessionId,
                   webRTC, handlers, players, count>>
    /\ UNCHANGED <<tables, chat, numPlayer, playerNameMap>>

\* Mutant of initialize: leaving a lobby that was left already throws.
initialize_SecondLeaveThrows(i, r) ==
    IF r = Undefined
    THEN /\ calls' = [calls EXCEPT ![i].status = "joined"]
         /\ emitted' = <<>>
         /\ raised' = FALSE
         /\ sent' = <<>>
         /\ UNCHANGED <<lobby, mySessionId, webRTC, handlers>>
    ELSE IF lobby \in {"undefined", "left"}
    THEN /\ calls' = [calls EXCEPT ![i].status = "threw"]
         /\ emitted' = <<>>
         /\ raised' = TRUE
         /\ sent' = <<>>
         /\ UNCHANGED <<lobby, mySessionId, webRTC, handlers>>
    ELSE /\ lobby' = "left"
         /\ mySessionId' = SessionId(r)
         /\ webRTC' = NewWebRTC
         /\ handlers' = handlers \cup {r}
         /\ calls' = [calls EXCEPT ![i].status = "joined"]
         /\ emitted' = <<Ev("setSessionId", SessionId(r), "", "")>>
         /\ raised' = FALSE
         /\ sent' = <<>>

\* Mutant of initialize: the handlers are registered first, the lobby is
\* left and the session id recorded after.
initialize_RegistersFirst(i, r) ==
    IF r = Undefined
    THEN /\ calls' = [calls EXCEPT ![i].status = "joined"]
         /\ emitted' = <<>>
         /\ raised' = FALSE
         /\ sent' = <<>>
         /\ UNCHANGED <<lobby, mySessionId, webRTC, handlers>>
    ELSE IF lobby = "undefined"
    THEN /\ handlers' = handlers \cup {r}
         /\ calls' = [calls EXCEPT ![i].status = "threw"]
         /\ emitted' = <<>>
         /\ raised' = TRUE
         /\ sent' = <<>>
         /\ UNCHANGED <<lobby, mySessionId, webRTC>>
    ELSE /\ lobby' = "left"
         /\ mySessionId' = SessionId(r)
         /\ webRTC' = NewWebRTC
         /\ handlers' = handlers \cup {r}
         /\ calls' = [calls EXCEPT ![i].status = "joined"]
         /\ emitted' = <<Ev("setSessionId", SessionId(r), "", "")>>
         /\ raised' = FALSE
         /\ sent' = <<>>

\* initialize(), run by join call i with this.room = r.
initialize(i, r) ==
    IF r = Undefined
    THEN \* if (!this.room) return;
         /\ calls' = [calls EXCEPT ![i].status = "joined"]
         /\ emitted' = <<>>
         /\ raised' = FALSE
         /\ sent' = <<>>
         /\ UNCHANGED <<lobby, mySessionId, webRTC, handlers>>
    ELSE IF lobby = "undefined"
    THEN \* this.lobby.leave() on an unassigned handle throws a TypeError,
         \* which rejects the join's promise.
         /\ calls' = [calls EXCEPT ![i].status = "threw"]
         /\ emitted' = <<>>
         /\ raised' = TRUE
         /\ sent' = <<>>
         /\ UNCHANGED <<lobby, mySessionId, webRTC, handlers>>
    ELSE /\ lobby' = "left"
         /\ mySessionId' = SessionId(r)
         /\ webRTC' = NewWebRTC
         /\ handlers' = handlers \cup {r}
         /\ calls' = [calls EXCEPT ![i].status = "joined"]
         /\ emitted' = <<Ev("setSessionId", SessionId(r), "", "")>>
         /\ raised' = FALSE
         /\ sent' = <<>>

\* The await of join call i resolves with a room handle: this.room is
\* assigned, joinOrCreatePublic records the user id, initialize() runs.
JoinResolve(i) ==
    /\ i \in 1..Len(calls)
    /\ calls[i].status = "pending"
    /\ room' = i
    /\ myUserId' = IF calls[i].kind = "joinOrCreatePublic"
                   THEN calls[i].userId ELSE myUserId
    /\ initialize(i, i)
    /\ last' = Op("joinResolved", i, Undefined, <<>>, "")
    /\ UNCHANGED <<lobbyCall, lobbyJoined, players, count>>
    /\ UNCHANGED <<tables, chat, numPlayer, playerNameMap>>

\* Mutant of JoinReject: the failed join drops the active room.
JoinReject_ClearsRoom(i) ==
    /\ i \in 1..Len(calls)
    /\ calls[i].status = "pending"
    /\ calls' = [calls EXCEPT ![i].status = "rejected"]
    /\ room' = Undefined
    /\ last' = Op("joinRejected", i, Undefined, <<>>, "")
    /\ emitted' = <<>>
    /\ raised' = TRUE
    /\ sent' = <<>>
    /\ UNCHANGED <<lobbyCall, lobby, lobbyJoined, myUserId, mySessionId,
                   webRTC, handlers, players, count>>
    /\ UNCHANGED <<tables, chat, numPlayer, playerNameMap>>

\* The await of join call i rejects (transport failure, server rejection):
\* the assignment and everything after it is skipped, the error goes to
\* the caller through the method's promise.
JoinReject(i) ==
    /\ i \in 1..Len(calls)
    /\ calls[i].status = "pending"
    /\ calls' = [calls EXCEPT ![i].status = "rejected"]
    /\ last' = Op("joinRejected", i, Undefined, <<>>, "")
    /\ emitted' = <<>>
    /\ raised' = TRUE
    /\ sent' = <<>>
    /\ UNCHANGED <<lobbyCall, lobby, lobbyJoined, room, myUserId, mySessionId,
                   webRTC, handlers, players, count>>
    /\ UNCHANGED <<tables, chat, numPlayer, playerNameMap>>

\* ------------------------------------------------- Presence/Call Coordinator
\* WebRTC.deleteVideoStream(k): release the outgoing-call stream held for k,
\* if there is one.
deleteVideoStream(w, k) == [w EXCEPT !.peers = @ \ {k}]

\* WebRTC.deleteOnCalledVideoStream(k): release the received-call stream
\* held for k, if there is one.
deleteOnCalledVideoStream(w, k) == [w EXCEPT !.onCalledPeers = @ \ {k}]

\* The teardown the media layer sees: one notice per stream released.
deleteVideoStreamEmits(w, k) ==
    IF k \in w.peers THEN <<Ev("streamReleased", k, "peers", "")>> ELSE <<>>

deleteOnCalledVideoStreamEmits(w, k) ==
    IF k \in w.onCalledPeers
    THEN <<Ev("streamReleased", k, "onCalledPeers", "")>> ELSE <<>>

\* Whether a call stream is held for k.
isStreamable(w, k) == k \in w.peers \cup w.onCalledPeers

\* A remote participant of the active room that a call can be set up with.
Callable(k) ==
    /\ webRTC.made
    /\ room # Undefined
    /\ players[room][k].present
    /\ k # mySessionId

\* The local user calls k: an outgoing-call stream is held for k.
ConnectToNewUser(k) ==
    /\ Callable(k)
    /\ k \notin webRTC.peers
    /\ webRTC' = [webRTC EXCEPT !.peers = @ \cup {k}]
    /\ last' = Op("connectToNewUser", Undefined, k, <<>>, "")
    /\ emitted' = <<>>
    /\ raised' = FALSE
    /\ sent' = <<>>
    /\ UNCHANGED <<lobbyCall, lobby, lobbyJoined, calls, room, myUserId,
                   mySessionId, handlers, players, count>>
    /\ UNCHANGED <<tables, chat, numPlayer, playerNameMap>>

\* k calls the local user: a received-call stream is held for k.
OnCalled(k) ==
    /\ Callable(k)
    /\ k \notin webRTC.onCalledPeers
    /\ webRTC' = [webRTC EXCEPT !.onCalledPeers = @ \cup {k}]
    /\ last' = Op("onCalled", Undefined, k, <<>>, "")
    /\ emitted' = <<>>
    /\ raised' = FALSE
    /\ sent' = <<>>
    /\ UNCHANGED <<lobbyCall, lobby, lobbyJoined, calls, room, myUserId,
                   mySessionId, handlers, players, count>>
    /\ UNCHANGED <<tables, chat, numPlayer, playerNameMap>>

\* ---------------------------------------------------------------- store
\* The user store's reducers of setPlayerNameMap and removePlayerNameMap,
\* applied to one dispatch: an entry is stored under the key, or deleted.
playerNameMapReducer(map, ev) ==
    IF ev.type = "setPlayerNameMap" THEN [map EXCEPT ![ev.key] = ev.value]
    ELSE IF ev.type = "removePlayerNameMap" THEN [map EXCEPT ![ev.key] = ""]
    ELSE map

\* The store after the dispatches of one callback, in dispatch order.
RECURSIVE Dispatch(_, _)
Dispatch(map, evs) ==
    IF evs = <<>> THEN map
    ELSE Dispatch(playerNameMapReducer(map, Head(evs)), Tail(evs))

\* --------------------------------------------------- coarse state change
\* The size of room r's Players collection in the snapshots ps.
PlayersSize(ps, r) == Cardinality({k \in Keys : ps[r][k].present})

\* Mutant of onStateChange: the local player is not counted.
onStateChange_RemotesOnly(ps) ==
    IF room = Undefined THEN numPlayer
    ELSE Cardinality({k \in Keys : ps[room][k].present /\ k # mySessionId})

\* room.onStateChange((state) => ...): the handler reads this.room, takes
\* the size of its Players collection and dispatches setNumPlayer; with no
\* room it returns.  The result is the store's numPlayer after it.  The
\* room signals a state change at the end of every patch it applies, once
\* the collection callbacks of the patch have run.
onStateChange(ps) ==
    IF room = Undefined THEN numPlayer ELSE PlayersSize(ps, room)

\* ------------------------------------------------------ Players collection
\* The changes a change notification on player p can carry: a field is
\* reported when its value changed.
ChangesOf(p) ==
    {[field |-> "name", value |-> v] : v \in Names \ {p.name}}
        \cup {[field |-> "anim", value |-> "run"]}

AllChanges == UNION {ChangesOf([name |-> n]) : n \in Names}

\* The batches: up to MaxBatch changes, each field at most once.
AllBatches ==
    {b \in UNION {[1..n -> AllChanges] : n \in 1..MaxBatch} :
        \A i, j \in 1..Len(b) : b[i].field = b[j].field => i = j}

Batches(p) ==
    {b \in AllBatches : \A i \in 1..Len(b) : b[i] \in ChangesOf(p)}

\* The player's name once the batch is applied.
RECURSIVE NameAfter(_, _)
NameAfter(name, changes) ==
    IF changes = <<>> THEN name
    ELSE NameAfter(IF Head(changes).field = "name"
                   THEN Head(changes).value ELSE name, Tail(changes))

\* Mutant of onAddAttaches: the self check is missing.
onAddAttaches_Always(key) == TRUE

\* players.onAdd: if (key === this.mySessionId) return; otherwise the
\* field-level listener player.onChange is attached.
onAddAttaches(key) == key # mySessionId

\* Mutant of onChangeEach: PLAYER_JOINED is emitted before PLAYER_UPDATED.
onChangeEach_JoinedFirst(key, change) ==
    (IF change.field = "name" /\ change.value # ""
     THEN << Ev("PLAYER_JOINED", key, "", change.value),
             Ev("setPlayerNameMap", key, myUserId, change.value),
             Ev("pushPlayerJoinedMessage", Undefined, "", change.value) >>
     ELSE <<>>)
    \o <<Ev("PLAYER_UPDATED", key, change.field, change.value)>>

\* The body of changes.forEach in player.onChange, for one change.
onChangeEach(key, change) ==
    <<Ev("PLAYER_UPDATED", key, change.field, change.value)>>
    \o IF change.field = "name" /\ change.value # ""
       THEN << Ev("PLAYER_JOINED", key, "", change.value),
               \* field carries the userId the entry is stored with
               Ev("setPlayerNameMap", key, myUserId, change.value),
               Ev("pushPlayerJoinedMessage", Undefined, "", change.value) >>
       ELSE <<>>

\* player.onChange(changes)
onChange(key, changes) ==
    Flatten([i \in 1..Len(changes) |-> onChangeEach(key, changes[i])])

\* Mutant of onRemoveEmits: PLAYER_LEFT is skipped for the local session id.
onRemoveEmits_SkipsSelf(w, player, key) ==
    (IF key = mySessionId THEN <<>> ELSE <<Ev("PLAYER_LEFT", key, "", "")>>)
    \o deleteVideoStreamEmits(w, key)
    \o deleteOnCalledVideoStreamEmits(w, key)
    \o << Ev("pushPlayerLeftMessage", Undefined, "", player.name),
          Ev("removePlayerNameMap", key, "", "") >>

\* Mutant of onRemoveEmits: removePlayerNameMap is not dispatched.
onRemoveEmits_KeepsName(w, player, key) ==
    <<Ev("PLAYER_LEFT", key, "", "")>>
    \o deleteVideoStreamEmits(w, key)
    \o deleteOnCalledVideoStreamEmits(w, key)
    \o <<Ev("pushPlayerLeftMessage", Undefined, "", player.name)>>

\* What players.onRemove(player, key) emits and dispatches, with w the
\* value of this.webRTC when it runs.
onRemoveEmits(w, player, key) ==
    <<Ev("PLAYER_LEFT", key, "", "")>>
    \o deleteVideoStreamEmits(w, key)
    \o deleteOnCalledVideoStreamEmits(w, key)
    \o << Ev("pushPlayerLeftMessage", Undefined, "", player.name),
          Ev("removePlayerNameMap", key, "", "") >>

\* Mutant of onRemoveStreams: the outgoing-call stream is not released.
onRemoveStreams_OnCalledOnly(w, key) == deleteOnCalledVideoStream(w, key)

\* What players.onRemove(player, key) does to this.webRTC.
onRemoveStreams(w, key) ==
    deleteOnCalledVideoStream(deleteVideoStream(w, key), key)

\* The number of non-empty name changes in a batch.
NameSets(changes) ==
    Cardinality({i \in 1..Len(changes) :
        changes[i].field = "name" /\ changes[i].value # ""})

\* Room r's snapshot gets player k: players.onAdd(player, k) runs.
PlayersOnAdd(r, k) ==
    /\ r \in handlers
    /\ count.notifs < MaxNotifs
    /\ ~players[r][k].present
    /\ players' = [players EXCEPT ![r][k] =
           [present |-> TRUE, name |-> "", listener |-> onAddAttaches(k),
            remote |-> k # mySessionId]]
    /\ last' = Op("players.onAdd", r, k, <<>>, "")
    /\ emitted' = <<>>
    /\ raised' = FALSE
    /\ sent' = <<>>
    /\ numPlayer' = onStateChange(players')
    /\ UNCHANGED <<tables, chat, playerNameMap>>
    /\ count' = [count EXCEPT
           !.notifs = @ + 1,
           !.adds = @ + 1,
           !.addsRemote = @ + IF k # mySessionId THEN 1 ELSE 0]
    /\ UNCHANGED <<lobbyCall, lobby, lobbyJoined, calls, room, myUserId,
                   mySessionId, webRTC, handlers>>

\* Fields of player k of room r change: its onChange listener, when one
\* was attached, runs with the batch.
PlayerOnChange(r, k, changes) ==
    /\ r \in handlers
    /\ count.notifs < MaxNotifs
    /\ players[r][k].present
    /\ changes \in Batches(players[r][k])
    /\ players' = [players EXCEPT ![r][k].name = NameAfter(@, changes)]
    /\ last' = Op("player.onChange", r, k, changes, "")
    /\ emitted' = IF players[r][k].listener THEN onChange(k, changes) ELSE <<>>
    /\ raised' = FALSE
    /\ sent' = <<>>
    /\ playerNameMap' = Dispatch(playerNameMap, emitted')
    /\ numPlayer' = onStateChange(players')
    /\ UNCHANGED <<tables, chat>>
    /\ count' = [count EXCEPT
           !.notifs = @ + 1,
           !.nameSets = @ + IF players[r][k].remote
                            THEN NameSets(changes) ELSE 0,
           !.joined = @ + NumOf(emitted', "PLAYER_JOINED")]
    /\ UNCHANGED <<lobbyCall, lobby, lobbyJoined, calls, room, myUserId,
                   mySessionId, webRTC, handlers>>

\* Room r's snapshot loses player k: players.onRemove(player, k) runs.
PlayersOnRemove(r, k) ==
    /\ r \in handlers
    /\ count.notifs < MaxNotifs
    /\ players[r][k].present
    /\ players' = [players EXCEPT ![r][k] = Absent]
    /\ last' = Op("players.onRemove", r, k, <<>>, "")
    /\ emitted' = onRemoveEmits(webRTC, players[r][k], k)
    /\ webRTC' = onRemoveStreams(webRTC, k)
    /\ raised' = FALSE
    /\ sent' = <<>>
    /\ playerNameMap' = Dispatch(playerNameMap, emitted')
    /\ numPlayer' = onStateChange(players')
    /\ UNCHANGED <<tables, chat>>
    /\ count' = [count EXCEPT
           !.notifs = @ + 1,
           !.removes = @ + 1,
           !.removesRemote = @ + IF k # mySessionId THEN 1 ELSE 0,
           !.left = @ + NumOf(emitted', "PLAYER_LEFT")]
    /\ UNCHANGED <<lobbyCall, lobby, lobbyJoined, calls, room, myUserId,
                   mySessionId, handlers>>

\* ------------------------------------------------------- Tables collection
\* Mutant of tablesOnAdd: a table that was in the collection before the
\* local client joined gets no listeners.
tablesOnAdd_SkipsExisting(table, key) ==
    [table EXCEPT !.listeners = ~table.existing]

\* tables.onAdd(table, key): connectedUser.onAdd and connectedUser.onRemove
\* of the table are set.
tablesOnAdd(table, key) == [table EXCEPT !.listeners = TRUE]

\* table.connectedUser.onAdd(item, index), set by tables.onAdd(table, key).
connectedUserOnAdd(item, key) == <<Ev("ITEM_USER_ADDED", key, "CHAIR", item)>>

\* Mutant of connectedUserOnRemove: the event is emitted twice.
connectedUserOnRemove_Twice(item, key) ==
    << Ev("ITEM_USER_REMOVED", key, "CHAIR", item),
       Ev("ITEM_USER_REMOVED", key, "CHAIR", item) >>

\* table.connectedUser.onRemove(item, index), set by tables.onAdd(table, key).
connectedUserOnRemove(item, key) ==
    <<Ev("ITEM_USER_REMOVED", key, "CHAIR", item)>>

\* Room r's snapshot gets table t: tables.onAdd(table, t) runs.  The
\* tables the server had before the local client joined arrive the same
\* way, with the first state of the room, after initialize() has set the
\* callback.
TablesOnAdd(r, t, existing) ==
    /\ r \in handlers
    /\ count.notifs < MaxNotifs
    /\ ~tables[r][t].present
    /\ tables' = [tables EXCEPT ![r][t] =
           tablesOnAdd([present |-> TRUE, existing |-> existing,
                        listeners |-> FALSE, connectedUser |-> {}], t)]
    /\ last' = Op("tables.onAdd", r, t, <<>>,
                  IF existing THEN "existing" ELSE "new")
    /\ emitted' = <<>>
    /\ raised' = FALSE
    /\ sent' = <<>>
    /\ numPlayer' = onStateChange(players)
    /\ count' = [count EXCEPT !.notifs = @ + 1]
    /\ UNCHANGED <<lobbyCall, lobby, lobbyJoined, calls, room, myUserId,
                   mySessionId, webRTC, handlers, players, chat,
                   playerNameMap>>

\* The connectedUser array of table t of room r gets entry item.
ConnectedUserOnAdd(r, t, item) ==
    /\ r \in handlers
    /\ count.notifs < MaxNotifs
    /\ tables[r][t].present
    /\ item \notin tables[r][t].connectedUser
    /\ tables' = [tables EXCEPT ![r][t].connectedUser = @ \cup {item}]
    /\ last' = Op("connectedUser.onAdd", r, t, <<>>, item)
    /\ emitted' = IF tables[r][t].listeners
                  THEN connectedUserOnAdd(item, t) ELSE <<>>
    /\ raised' = FALSE
    /\ sent' = <<>>
    /\ numPlayer' = onStateChange(players)
    /\ count' = [count EXCEPT !.notifs = @ + 1]
    /\ UNCHANGED <<lobbyCall, lobby, lobbyJoined, calls, room, myUserId,
                   mySessionId, webRTC, handlers, players, chat,
                   playerNameMap>>

\* The connectedUser array of table t of room r loses entry item.
ConnectedUserOnRemove(r, t, item) ==
    /\ r \in handlers
    /\ count.notifs < MaxNotifs
    /\ tables[r][t].present
    /\ item \in tables[r][t].connectedUser
    /\ tables' = [tables EXCEPT ![r][t].connectedUser = @ \ {item}]
    /\ last' = Op("connectedUser.onRemove", r, t, <<>>, item)
    /\ emitted' = IF tables[r][t].listeners
                  THEN connectedUserOnRemove(item, t) ELSE <<>>
    /\ raised' = FALSE
    /\ sent' = <<>>
    /\ numPlayer' = onStateChange(players)
    /\ count' = [count EXCEPT !.notifs = @ + 1]
    /\ UNCHANGED <<lobbyCall, lobby, lobbyJoined, calls, room, myUserId,
                   mySessionId, webRTC, handlers, players, chat,
                   playerNameMap>>

\* ------------------------------------------------------------- chat log
\* The appends one patch can carry.
ChatBatches == UNION {[1..n -> ChatContents] : n \in 1..MaxBatch}

\* chatMessages.onAdd(item, index): the entry goes to the store.  The
\* entry is identified by its index in the log.
chatMessagesOnAdd(item, index) == <<Ev("pushChatMessage", index, "", item)>>

\* Mutant of chatMessagesOnAddEach: the entries are taken last first.
chatMessagesOnAddEach_LastFirst(items, first) ==
    Flatten([i \in 1..Len(items) |->
        chatMessagesOnAdd(items[Len(items) + 1 - i],
                          first + Len(items) - i)])

\* The calls of chatMessages.onAdd for the entries one patch appends at
\* index first and after: one call per entry, in append order.
chatMessagesOnAddEach(items, first) ==
    Flatten([i \in 1..Len(items) |->
        chatMessagesOnAdd(items[i], first + i - 1)])

\* Room r's snapshot of the chat log gets the entries items appended.
ChatMessagesOnAdd(r, items) ==
    /\ r \in handlers
    /\ count.notifs < MaxNotifs
    /\ chat' = [chat EXCEPT ![r] = @ + Len(items)]
    /\ last' = Op("chatMessages.onAdd", r, chat[r], items, "")
    /\ emitted' = chatMessagesOnAddEach(items, chat[r])
    /\ raised' = FALSE
    /\ sent' = <<>>
    /\ numPlayer' = onStateChange(players)
    /\ count' = [count EXCEPT !.notifs = @ + 1]
    /\ UNCHANGED <<lobbyCall, lobby, lobbyJoined, calls, room, myUserId,
                   mySessionId, webRTC, handlers, players, tables,
                   playerNameMap>>

\* ----------------------------------------------------- coarse state change
\* Room r applies a patch that runs none of the collection callbacks (a
\* change of a field nobody listens to): only room.onStateChange runs.
OnStateChange(r) ==
    /\ r \in handlers
    /\ count.notifs < MaxNotifs
    /\ numPlayer' = onStateChange(players)
    /\ last' = Op("onStateChange", r, Undefined, <<>>, "")
    /\ emitted' = <<>>
    /\ raised' = FALSE
    /\ sent' = <<>>
    /\ count' = [count EXCEPT !.notifs = @ + 1]
    /\ UNCHANGED <<lobbyCall, lobby, lobbyJoined, calls, room, myUserId,
                   mySessionId, webRTC, handlers, players, tables, chat,
                   playerNameMap>>

\* -------------------------------------------------------- inbound messages
\* The payload of an inbound message as it arrives: an object with the
\* fields of its kind, a value that is not an object, or no payload at all.
Shapes == {"object", "primitive", "missing"}
Contents == {"hi"}

\* A notification on room r that changes nothing but the webRTC streams.
Message(r, op, key, shape, evs, threw, w) ==
    /\ r \in handlers
    /\ count.notifs < MaxNotifs
    /\ last' = Op(op, r, key, <<>>, shape)
    /\ emitted' = evs
    /\ raised' = threw
    /\ sent' = <<>>
    /\ webRTC' = w
    /\ count' = [count EXCEPT !.notifs = @ + 1]
    /\ UNCHANGED <<lobbyCall, lobby, lobbyJoined, calls, room, myUserId,
                   mySessionId, handlers, players>>
    /\ UNCHANGED <<tables, chat, numPlayer, playerNameMap>>

\* onMessage(SEND_ROOM_DATA, content): the content goes to the store as is.
OnSendRoomData(r, shape) ==
    Message(r, "SEND_ROOM_DATA", Undefined, shape,
            <<Ev("setJoinedRoomData", Undefined, "", shape)>>, FALSE, webRTC)

\* onMessage(ADD_CHAT_MESSAGE, ({ clientId, content }) => ...): the
\* parameter is destructured.  Destructuring undefined or null throws a
\* TypeError; destructuring any other value that lacks the fields yields
\* undefined for both, and the event is emitted with them.
OnAddChatMessage(r, shape, clientId, content) ==
    Message(r, "ADD_CHAT_MESSAGE", IF shape = "object" THEN clientId ELSE Undefined,
            shape,
            IF shape = "missing" THEN <<>>
            ELSE IF shape = "object"
            THEN <<Ev("UPDATE_DIALOG_BUBBLE", clientId, "", content)>>
            ELSE <<Ev("UPDATE_DIALOG_BUBBLE", Undefined, "", "undefined")>>,
            shape = "missing", webRTC)

\* Mutant of OnDisconnectStream: the handler runs the teardown of a remove.
OnDisconnectStream_ReleasesBoth(r, clientId) ==
    Message(r, "DISCONNECT_STREAM", clientId, "object",
            deleteVideoStreamEmits(webRTC, clientId)
                \o deleteOnCalledVideoStreamEmits(webRTC, clientId),
            FALSE, onRemoveStreams(webRTC, clientId))

\* onMessage(DISCONNECT_STREAM, clientId): the received-call stream of
\* clientId is released.
OnDisconnectStream(r, clientId) ==
    Message(r, "DISCONNECT_STREAM", clientId, "object",
            deleteOnCalledVideoStreamEmits(webRTC, clientId), FALSE,
            deleteOnCalledVideoStream(webRTC, clientId))

\* onMessage(STOP_TABLE_TALK, clientId): handed to the table store's
\* tableTalkManager, which is not part of this layer.
OnStopTableTalk(r, clientId) ==
    Message(r, "STOP_TABLE_TALK", clientId, "object", <<>>, FALSE, webRTC)

\* onMessage(RECEIVE_DM, content): logged.
OnReceiveDM(r, shape) ==
    Message(r, "RECEIVE_DM", Undefined, shape, <<>>, FALSE, webRTC)

\* ------------------------------------------------------ outbound messages
\* Mutant of playerStreamDisconnectStreams: nothing is released.
playerStreamDisconnectStreams_Keeps(w, id) == w

\* What playerStreamDisconnect(id) does to this.webRTC:
\* this.webRTC?.deleteVideoStream(id).
playerStreamDisconnectStreams(w, id) ==
    IF w.made THEN deleteVideoStream(w, id) ELSE w

\* playerStreamDisconnect(id), the handler of PLAYER_DISCONNECTED:
\* this.room?.send(DISCONNECT_STREAM, { clientId: id }), then the
\* outgoing-call stream held for id is released.
PlayerStreamDisconnect(id) ==
    /\ count.notifs < MaxNotifs
    /\ sent' = IF room = Undefined THEN <<>>
               ELSE <<[type |-> "DISCONNECT_STREAM", room |-> room,
                       clientId |-> id]>>
    /\ webRTC' = playerStreamDisconnectStreams(webRTC, id)
    /\ last' = Op("playerStreamDisconnect", Undefined, id, <<>>, "")
    /\ emitted' = IF webRTC.made THEN deleteVideoStreamEmits(webRTC, id)
                  ELSE <<>>
    /\ raised' = FALSE
    /\ count' = [count EXCEPT !.notifs = @ + 1]
    /\ UNCHANGED <<lobbyCall, lobby, lobbyJoined, calls, room, myUserId,
                   mySessionId, handlers, players, tables, chat, numPlayer,
                   playerNameMap>>

\* A message of kind type with its payload, sent to room r.
Msg(type, r, payload) == [type |-> type, room |-> r, payload |-> payload]

\* Mutant of roomSend: the messages go out whether or not a room is set.
roomSend_Unguarded(msgs) == msgs

\* this.room?.send(...): with no room nothing is sent; msgs are the
\* messages the method sends, in order, when there is one.
roomSend(msgs) == IF room = Undefined THEN <<>> ELSE msgs

\* An outbound method that touches nothing but the room's send API and
\* the event bus.
Outbound(op, key, msgs, evs) ==
    /\ count.notifs < MaxNotifs
    /\ sent' = roomSend(msgs)
    /\ last' = Op(op, Undefined, key, <<>>, "")
    /\ emitted' = evs
    /\ raised' = FALSE
    /\ count' = [count EXCEPT !.notifs = @ + 1]
    /\ UNCHANGED <<lobbyCall, lobby, lobbyJoined, calls, room, myUserId,
                   mySessionId, webRTC, handlers, players, tables, chat,
                   numPlayer, playerNameMap>>

\* The values the callers pass.
Positions == {[x |-> 1, y |-> 2]}
Anims == {"run"}
ChairIds == {"c1"}

\* updatePlayer(currentX, currentY, currentAnim), also the handler of
\* MY_PLAYER_TEXTURE_CHANGE.
UpdatePlayer(pos, anim) ==
    Outbound("updatePlayer", Undefined,
             <<Msg("UPDATE_PLAYER", room,
                   [x |-> pos.x, y |-> pos.y, anim |-> anim])>>, <<>>)

\* updatePlayerName(message), also the handler of MY_PLAYER_NAME_CHANGE:
\* the message is the object { currentName, userId } of its callers.
UpdatePlayerName(currentName, userId) ==
    Outbound("updatePlayerName", Undefined,
             <<Msg("UPDATE_PLAYER_NAME", room,
                   [name |-> currentName, userId |-> userId])>>, <<>>)

\* readyToConnect(): the send, then MY_PLAYER_READY on the event bus.
ReadyToConnect ==
    Outbound("readyToConnect", Undefined,
             <<Msg("READY_TO_CONNECT", room, <<>>)>>,
             <<Ev("MY_PLAYER_READY", Undefined, "", "")>>)

\* videoConnected(): the send, then MY_PLAYER_VIDEO_CONNECTED on the bus.
VideoConnected ==
    Outbound("videoConnected", Undefined,
             <<Msg("VIDEO_CONNECTED", room, <<>>)>>,
             <<Ev("MY_PLAYER_VIDEO_CONNECTED", Undefined, "", "")>>)

\* connectToTable(id)
ConnectToTable(id) ==
    Outbound("connectToTable", id,
             <<Msg("CONNECT_TO_TABLE", room, [tableId |-> id])>>, <<>>)

\* updateChairStatus(tableId, chairId, status)
UpdateChairStatus(tableId, chairId, status) ==
    Outbound("updateChairStatus", tableId,
             <<Msg("UPDATE_CHAIR_STATUS", room,
                   [tableId |-> tableId, chairId |-> chairId,
                    status |-> status])>>, <<>>)

\* disconnectFromTable(id)
DisconnectFromTable(id) ==
    Outbound("disconnectFromTable", id,
             <<Msg("DISCONNECT_FROM_TABLE", room, [tableId |-> id])>>, <<>>)

\* onStopTableTalk(id)
onStopTableTalk(id) ==
    Outbound("onStopTableTalk", id,
             <<Msg("STOP_TABLE_TALK", room, [tableId |-> id])>>, <<>>)

\* addChatMessage(content)
AddChatMessage(content) ==
    Outbound("addChatMessage", Undefined,
             <<Msg("ADD_CHAT_MESSAGE", room, [content |-> content])>>, <<>>)

\* checkPrivateMessage(sender)
CheckPrivateMessage(sender) ==
    Outbound("checkPrivateMessage", Undefined,
             <<Msg("RECEIVE_DM", room, [sender |-> sender])>>, <<>>)

\* sendPrivateMessage(sender, receiver, content): the send, then
\* checkPrivateMessage(receiver).
SendPrivateMessage(sender, receiver, content) ==
    Outbound("sendPrivateMessage", Undefined,
             << Msg("SEND_DM", room,
                    [sender |-> sender, receiver |-> receiver,
                     content |-> content]),
                Msg("RECEIVE_DM", room, [sender |-> receiver]) >>, <<>>)

MessageOps ==
    {"SEND_ROOM_DATA", "ADD_CHAT_MESSAGE", "DISCONNECT_STREAM",
     "STOP_TABLE_TALK", "RECEIVE_DM"}

Next ==
    \/ LobbyResolve
    \/ LobbyReject
    \/ \E kind \in JoinKinds, userId \in UserIds : StartJoin(kind, userId)
    \/ \E i \in RoomIds : JoinResolve(i)
    \/ \E i \in RoomIds : JoinReject(i)
    \/ \E k \in Keys : ConnectToNewUser(k)
    \/ \E k \in Keys : OnCalled(k)
    \/ \E r \in RoomIds, k \in Keys : PlayersOnAdd(r, k)
    \/ \E r \in RoomIds, k \in Keys, changes \in AllBatches :
           PlayerOnChange(r, k, changes)
    \/ \E r \in RoomIds, k \in Keys : PlayersOnRemove(r, k)
    \/ \E r \in RoomIds, t \in TableIds, existing \in BOOLEAN :
           TablesOnAdd(r, t, existing)
    \/ \E r \in RoomIds, t \in TableIds, item \in Users :
           ConnectedUserOnAdd(r, t, item)
    \/ \E r \in RoomIds, t \in TableIds, item \in Users :
           ConnectedUserOnRemove(r, t, item)
    \/ \E r \in RoomIds, items \in ChatBatches : ChatMessagesOnAdd(r, items)
    \/ \E r \in RoomIds : OnStateChange(r)
    \/ \E r \in RoomIds, shape \in Shapes : OnSendRoomData(r, shape)
    \/ \E r \in RoomIds, k \in Keys, c \in Contents :
           OnAddChatMessage(r, "object", k, c)
    \/ \E r \in RoomIds, shape \in Shapes \ {"object"} :
           OnAddChatMessage(r, shape, Undefined, "undefined")
    \/ \E r \in RoomIds, k \in Keys : OnDisconnectStream(r, k)
    \/ \E r \in RoomIds, k \in Keys : OnStopTableTalk(r, k)
    \/ \E r \in RoomIds, shape \in Shapes : OnReceiveDM(r, shape)
    \/ \E id \in Keys : PlayerStreamDisconnect(id)
    \/ \E pos \in Positions, anim \in Anims : UpdatePlayer(pos, anim)
    \/ \E currentName \in Names \ {""}, userId \in UserIds :
           UpdatePlayerName(currentName, userId)
    \/ ReadyToConnect
    \/ VideoConnected
    \/ \E id \in TableIds : ConnectToTable(id)
    \/ \E tableId \in TableIds, chairId \in ChairIds, status \in BOOLEAN :
           UpdateChairStatus(tableId, chairId, status)
    \/ \E id \in TableIds : DisconnectFromTable(id)
    \/ \E id \in TableIds : onStopTableTalk(id)
    \/ \E content \in Contents : AddChatMessage(content)
    \/ \E sender \in UserIds : CheckPrivateMessage(sender)
    \/ \E sender, receiver \in UserIds, content \in Contents :
           SendPrivateMessage(sender, receiver, content)

Spec == Init /\ [][Next]_vars

\* ===================================================================
\* Properties
\* ===================================================================
DiffOps == {"players.onAdd", "player.onChange", "players.onRemove"}

\* The player that the last notification was about, as it is now.
LastPlayer == players[last.room][last.key]

\* Join calls i and j overlapped (j was started while i was pending) and
\* both resolved with their join sequence run to its end.
BothJoined(i, j) ==
    /\ i \in 1..Len(calls)
    /\ j \in 1..Len(calls)
    /\ i \in calls[j].pendingAtStart
    /\ calls[i].status = "joined"
    /\ calls[j].status = "joined"

\* C1: PlayerJoined is emitted at most once per remote player: a change of
\* a remote player's name from a non-empty value to a different non-empty
\* value emits exactly one PlayerFieldUpdated("name", value, K) and no
\* PlayerJoined.
C1_JoinedAtMostOnce ==
    [][\A r \in RoomIds, k \in Keys :
        ( /\ last'.op = "player.onChange"
          /\ last'.room = r
          /\ last'.key = k
          /\ players[r][k].listener
          /\ players[r][k].name # ""
          /\ players'[r][k].name \notin {"", players[r][k].name} )
        => /\ NumOf(emitted', "PLAYER_JOINED") = 0
           /\ Cardinality({n \in 1..Len(emitted') :
                  emitted'[n] = Ev("PLAYER_UPDATED", k, "name",
                                   players'[r][k].name)}) = 1]_vars

\* C2: when join j is started while join i is pending and both resolve,
\* the session of j, the later-started one, is the active room, whichever
\* resolved first (as long as no join started after j has taken over).
C2_LaterStartedJoinWins ==
    \A i, j \in RoomIds :
        ( /\ BothJoined(i, j)
          /\ \A n \in 1..Len(calls) : n > j => calls[n].status = "pending" )
        => room = j /\ mySessionId = SessionId(j)

\* The player, table and chat events.
SemanticEvents ==
    {"PLAYER_UPDATED", "PLAYER_JOINED", "PLAYER_LEFT", "ITEM_USER_ADDED",
     "ITEM_USER_REMOVED", "pushChatMessage"}

\* C3: when two joinOrCreatePublic calls overlap and both resolve, a diff
\* notification on the one of the two sessions that is not the active room
\* produces no player, table or chat event.
C3_DiscardedSessionSilent ==
    \A i, j \in RoomIds :
        ( /\ BothJoined(i, j)
          /\ calls[i].kind = "joinOrCreatePublic"
          /\ calls[j].kind = "joinOrCreatePublic"
          /\ room \in {i, j}
          /\ last.op \in DiffOps
          /\ last.room \in {i, j} \ {room} )
        => \A n \in 1..Len(emitted) : emitted[n].type \notin SemanticEvents

\* C4: at most one room session has live handlers at any moment.
C4_OneLiveSession == Cardinality(handlers) <= 1

C6_SelfSuppressedOthersListened ==
    /\ \A r \in RoomIds, k \in Keys :
           players[r][k].present =>
               (players[r][k].listener <=> players[r][k].remote)
    /\ last.op = "player.onChange" =>
           IF LastPlayer.remote
           THEN /\ NumOf(emitted, "PLAYER_UPDATED") = Len(last.changes)
                /\ \A i \in 1..Len(last.changes) :
                       \E n \in 1..Len(emitted) :
                           emitted[n] = Ev("PLAYER_UPDATED", last.key,
                                           last.changes[i].field,
                                           last.changes[i].value)
           ELSE emitted = <<>>
    /\ Cardinality(handlers) = 1 =>
           \A n \in 1..Len(emitted) :
               emitted[n].type \in {"PLAYER_UPDATED", "PLAYER_JOINED"}
                   => emitted[n].key # mySessionId

C6_Witness ==
    /\ last.op = "player.onChange"
    /\ last.key = mySessionId
    /\ last.room = room
    /\ LastPlayer.name # ""
    /\ emitted = <<>>

\* The notices of streams released for key k in what was emitted.
Released(k) ==
    {emitted[n].field : n \in {m \in 1..Len(emitted) :
        emitted[m].type = "streamReleased" /\ emitted[m].key = k}}

\* C7: every remove notification for key K emits PlayerLeft(K) and leaves
\* no call stream held for K, neither the outgoing-call stream nor the
\* received-call stream, whether or not a disconnect-stream message came
\* first: K is not streamable after it.
C7_RemoveEmitsLeftAndReleases ==
    last.op = "players.onRemove" =>
        /\ Cardinality({n \in 1..Len(emitted) :
               emitted[n] = Ev("PLAYER_LEFT", last.key, "", "")}) = 1
        /\ NumOf(emitted, "PLAYER_LEFT") = 1
        /\ last.key \notin webRTC.peers
        /\ last.key \notin webRTC.onCalledPeers
        /\ ~isStreamable(webRTC, last.key)
        /\ ~raised

\* A remove that found both streams of K still held: no disconnect-stream
\* message had released the received-call stream.
C7_Witness ==
    /\ last.op = "players.onRemove"
    /\ Released(last.key) = {"peers", "onCalledPeers"}
    /\ ~isStreamable(webRTC, last.key)

\* C8 as stated: a remove notification and a disconnect-stream message for
\* K each leave every call stream of K released, and raise no error.
C8_EitherReleasesEveryStream ==
    last.op \in {"players.onRemove", "DISCONNECT_STREAM"} =>
        ~isStreamable(webRTC, last.key) /\ ~raised

\* C8 amended: a remove notification for K releases both call streams of
\* K; a disconnect-stream message for K releases the received-call stream
\* of K and leaves the outgoing-call stream as it was.  Neither touches a
\* stream of another key nor raises an error, and either of them changes
\* nothing when the streams it releases are not held (so a second
\* application, or one after the other in any order, is a no-op).
C8_ReleaseIsIdempotent ==
    [][ /\ last'.op = "players.onRemove" =>
            /\ webRTC'.peers = webRTC.peers \ {last'.key}
            /\ webRTC'.onCalledPeers = webRTC.onCalledPeers \ {last'.key}
            /\ ~raised'
            /\ ~isStreamable(webRTC, last'.key) => webRTC' = webRTC
        /\ last'.op = "DISCONNECT_STREAM" =>
            /\ webRTC'.peers = webRTC.peers
            /\ webRTC'.onCalledPeers = webRTC.onCalledPeers \ {last'.key}
            /\ ~raised'
            /\ last'.key \notin webRTC.onCalledPeers
                   => webRTC' = webRTC /\ emitted' = <<>> ]_vars

\* A disconnect-stream message that released the received-call stream of
\* K and left K's outgoing-call stream held.
C8_Witness ==
    /\ last.op = "DISCONNECT_STREAM"
    /\ Released(last.key) = {"onCalledPeers"}
    /\ last.key \in webRTC.peers
    /\ isStreamable(webRTC, last.key)

\* C9: a join rejected by the transport or the server is reported to the
\* caller and leaves the active room, the recorded session id, the lobby
\* connection and the registered handlers as they were.
C9_FailedJoinChangesNothing ==
    [][ last'.op = "joinRejected" =>
            /\ calls'[last'.room].status = "rejected"
            /\ raised'
            /\ room' = room
            /\ mySessionId' = mySessionId
            /\ myUserId' = myUserId
            /\ lobby' = lobby
            /\ lobbyCall' = lobbyCall
            /\ handlers' = handlers
            /\ webRTC' = webRTC
            /\ players' = players
            /\ emitted' = <<>> ]_vars

\* A join that failed while an earlier room was active.
C9_Witness ==
    /\ last.op = "joinRejected"
    /\ room # Undefined
    /\ room \in handlers
    /\ mySessionId = SessionId(room)
    /\ lobby = "left"

\* The events of the event bus.
BusEvents ==
    {"PLAYER_UPDATED", "PLAYER_JOINED", "PLAYER_LEFT", "ITEM_USER_ADDED",
     "ITEM_USER_REMOVED", "UPDATE_DIALOG_BUBBLE", "MY_PLAYER_READY",
     "MY_PLAYER_VIDEO_CONNECTED"}

\* C10: an inbound message with a malformed payload is dropped: its
\* handler raises no error and emits no event on the bus.
C10_MalformedDropped ==
    (last.op \in MessageOps /\ last.payload # "object") =>
        /\ ~raised
        /\ \A n \in 1..Len(emitted) : emitted[n].type \notin BusEvents

\* The notifications a patch of a room's state delivers.
PatchOps ==
    DiffOps \cup {"tables.onAdd", "connectedUser.onAdd",
                  "connectedUser.onRemove", "chatMessages.onAdd",
                  "onStateChange"}

\* C11: every table in the Tables collection of a session, a table that
\* was there before the local client joined included, has its seat
\* listeners attached: each later add of a user to its connectedUser emits
\* SeatOccupied(user, tableId, CHAIR) and nothing else, each remove
\* SeatVacated(user, tableId, CHAIR).
C11_TablesHaveSeatListeners ==
    /\ \A r \in RoomIds, t \in TableIds :
           tables[r][t].present => tables[r][t].listeners
    /\ last.op = "connectedUser.onAdd" =>
           /\ emitted = <<Ev("ITEM_USER_ADDED", last.key, "CHAIR", last.payload)>>
           /\ ~raised
    /\ last.op = "connectedUser.onRemove" =>
           /\ emitted = <<Ev("ITEM_USER_REMOVED", last.key, "CHAIR",
                             last.payload)>>
           /\ ~raised

\* A user took a seat at a table of the active room that was in the
\* collection before the local client joined.
C11_Witness ==
    /\ last.op = "connectedUser.onAdd"
    /\ last.room = room
    /\ tables[last.room][last.key].existing
    /\ last.payload \in tables[last.room][last.key].connectedUser
    /\ NumOf(emitted, "ITEM_USER_ADDED") = 1

\* C12: each removal of an occupant from a table's connectedUser emits
\* exactly one SeatVacated, and that event carries the occupant that was
\* removed and the id of the table it was removed from.
C12_OneVacatedPerRemoval ==
    last.op = "connectedUser.onRemove" =>
        /\ NumOf(emitted, "ITEM_USER_REMOVED") = 1
        /\ \A n \in 1..Len(emitted) :
               emitted[n].type = "ITEM_USER_REMOVED" =>
                   /\ emitted[n].value = last.payload
                   /\ emitted[n].key = last.key
                   /\ emitted[n].field = "CHAIR"
        /\ last.payload \notin tables[last.room][last.key].connectedUser

\* An occupant left a table.
C12_Witness ==
    /\ last.op = "connectedUser.onRemove"
    /\ last.key \in TableIds
    /\ last.payload \in Users
    /\ tables[last.room][last.key].connectedUser = {}
    /\ Len(emitted) = 1

\* C13: one ChatMessageReceived is published per appended chat entry, in
\* append order: the events of a patch carry its entries first to last, and
\* the entries of a later patch have later indices.
C13_ChatPublishedInAppendOrder ==
    last.op = "chatMessages.onAdd" =>
        /\ Len(emitted) = Len(last.changes)
        /\ \A i \in 1..Len(emitted) :
               emitted[i] = Ev("pushChatMessage", last.key + i - 1, "",
                               last.changes[i])
        /\ chat[last.room] = last.key + Len(last.changes)
        /\ ~raised

\* "hi" and "bye" appended, in this order, to a log that had an entry.
C13_Witness ==
    /\ last.op = "chatMessages.onAdd"
    /\ last.key > 0
    /\ last.changes = <<"hi", "bye">>
    /\ emitted[1].value = "hi"
    /\ emitted[2].value = "bye"
    /\ emitted[1].key < emitted[2].key

\* C14: when the name of a player added under a key other than the local
\* session id is set to a non-empty value v, PlayerFieldUpdated("name", v,
\* K) is emitted and PlayerJoined(P, K) after it, none before it; and once
\* the remote player's add is applied to the active room that holds the
\* local player, the published player count is 2.
C14_UpdatedThenJoinedAndCounted ==
    /\ (last.op = "player.onChange" /\ LastPlayer.listener) =>
           \A i \in 1..Len(last.changes) :
               (last.changes[i].field = "name" /\ last.changes[i].value # "")
               => \E p, q \in 1..Len(emitted) :
                      /\ p < q
                      /\ emitted[p] = Ev("PLAYER_UPDATED", last.key, "name",
                                         last.changes[i].value)
                      /\ emitted[q] = Ev("PLAYER_JOINED", last.key, "",
                                         last.changes[i].value)
                      /\ \A n \in 1..p : emitted[n].type # "PLAYER_JOINED"
    /\ ( /\ last.op = "players.onAdd"
         /\ last.room = room
         /\ last.key # mySessionId
         /\ {k \in Keys : players[room][k].present} = {mySessionId, last.key} )
       => numPlayer = 2

\* The scenario: the local player and a remote player are in the active
\* room, the remote player's name was just set, the count published is 2.
C14_Witness ==
    /\ last.op = "player.onChange"
    /\ last.room = room
    /\ mySessionId = SessionId(room)
    /\ last.key # mySessionId
    /\ players[room][mySessionId].present
    /\ Len(last.changes) = 1
    /\ LastPlayer.name = "Alice"
    /\ emitted[1] = Ev("PLAYER_UPDATED", last.key, "name", "Alice")
    /\ emitted[2] = Ev("PLAYER_JOINED", last.key, "", "Alice")
    /\ numPlayer = 2

\* C15: once a room join has succeeded (its join sequence ran to its end)
\* the lobby is released, and it stays released; a join sequence that
\* releases a lobby that was released already raises no error and succeeds.
C15_LobbyReleasedIdempotently ==
    /\ (\E i \in 1..Len(calls) : calls[i].status = "joined") => lobby = "left"
    /\ (last.op = "joinResolved" /\ lobby = "left") =>
           /\ ~raised
           /\ calls[last.room].status = "joined"

\* A second join succeeded after the first one had released the lobby.
C15_Witness ==
    /\ last.op = "joinResolved"
    /\ \E i \in 1..Len(calls) :
           i # last.room /\ calls[i].status = "joined"
    /\ calls[last.room].status = "joined"
    /\ lobby = "left"
    /\ ~raised

\* C16: the join sequence releases the lobby and records the local session
\* id before it registers any handler: a room has handlers only when its
\* join sequence ran to its end, and no notification is processed while
\* the local session id is unknown or the lobby unreleased.
C16_SessionKnownBeforeHandlers ==
    /\ \A r \in handlers :
           /\ calls[r].status = "joined"
           /\ mySessionId # Undefined
           /\ lobby = "left"
    /\ last.op \in PatchOps \cup MessageOps =>
           /\ last.room \in handlers
           /\ mySessionId # Undefined

\* The first diff of a session, the add of the local player, met the
\* recorded session id.
C16_Witness ==
    /\ last.op = "players.onAdd"
    /\ count.notifs = 1
    /\ last.key = mySessionId
    /\ ~LastPlayer.listener

\* C17: after every patch of the active room the published player count is
\* the size of the active room's Players collection, the local player
\* included.
C17_CountIsPlayersSize ==
    (last.op \in PatchOps /\ last.room = room) =>
        numPlayer = PlayersSize(players, room)

\* Local and remote player added, the remote one removed: 1 is published.
C17_Witness ==
    /\ last.op = "players.onRemove"
    /\ last.room = room
    /\ last.key # mySessionId
    /\ players[room][mySessionId].present
    /\ numPlayer = 1

\* The message playerStreamDisconnect(id) sends to room r.
DisconnectStreamMessage(r, id) ==
    [type |-> "DISCONNECT_STREAM", room |-> r, clientId |-> id]

\* C18 as stated: when the local user drops peer K while in a room, a
\* disconnect-stream message naming K is sent and every call stream held
\* for K is released: K is not streamable afterwards.
C18_DropTearsDownLikeLeft ==
    (last.op = "playerStreamDisconnect" /\ room # Undefined) =>
        /\ sent = <<DisconnectStreamMessage(room, last.key)>>
        /\ ~isStreamable(webRTC, last.key)

\* C18 amended: when the local user drops peer K while in a room, a
\* disconnect-stream message naming K is sent to the active room and the
\* outgoing-call stream held for K is released; the received-call stream
\* of K and the streams of other keys stay as they were, and no error is
\* raised.
C18_DropReleasesOutgoingOnly ==
    [][ (last'.op = "playerStreamDisconnect" /\ room # Undefined) =>
            /\ sent' = <<DisconnectStreamMessage(room, last'.key)>>
            /\ webRTC'.peers = webRTC.peers \ {last'.key}
            /\ webRTC'.onCalledPeers = webRTC.onCalledPeers
            /\ ~raised' ]_vars

\* The local user dropped K while both streams of K were held: the
\* outgoing-call stream went, the received-call stream stayed.
C18_Witness ==
    /\ last.op = "playerStreamDisconnect"
    /\ sent = <<DisconnectStreamMessage(room, last.key)>>
    /\ Released(last.key) = {"peers"}
    /\ last.key \in webRTC.onCalledPeers

\* C19: whenever a room join resolves and runs the join sequence, the
\* lobby join has settled and the lobby handle is assigned: the join
\* sequence does not fail.
C19_LobbyAssignedBeforeRelease ==
    last.op = "joinResolved" =>
        /\ lobbyCall # "pending"
        /\ lobby # "undefined"
        /\ ~raised

\* C20: while one room is joined, the player-name map holds an entry for K
\* only if K is in the room's Players collection, K is not the local
\* session id and K's name was changed to a non-empty value (the entry
\* holds the name as long as the name is not emptied); after a remove of K
\* the map holds no entry for K.
C20_NameMapTracksNamedRemotes ==
    /\ Cardinality(handlers) = 1 =>
           \A r \in handlers, k \in Keys :
               /\ playerNameMap[k] # "" =>
                      /\ players[r][k].present
                      /\ k # mySessionId
                      /\ players[r][k].listener
                      /\ count.nameSets > 0
                      /\ players[r][k].name \in {"", playerNameMap[k]}
               /\ (players[r][k].listener /\ players[r][k].name # "") =>
                      playerNameMap[k] = players[r][k].name
    /\ last.op = "players.onRemove" => playerNameMap[last.key] = ""

\* A remote player was added and named, which stored its entry, and then
\* removed, which deleted it.
C20_Witness ==
    /\ Cardinality(handlers) = 1
    /\ last.op = "players.onRemove"
    /\ last.key # mySessionId
    /\ count.nameSets = 1
    /\ \A k \in Keys : playerNameMap[k] = ""

\* The outbound methods.
OutboundOps ==
    {"updatePlayer", "updatePlayerName", "readyToConnect", "videoConnected",
     "playerStreamDisconnect", "connectToTable", "updateChairStatus",
     "disconnectFromTable", "onStopTableTalk", "addChatMessage",
     "sendPrivateMessage", "checkPrivateMessage"}

\* The session state: everything but the record of the last call.
Session ==
    <<lobbyCall, lobby, lobbyJoined, calls, room, myUserId, mySessionId,
      webRTC, handlers, players, tables, chat, numPlayer, playerNameMap>>

\* C21: while no room is joined, every outbound method sends nothing,
\* raises no error and leaves the session state as it was; readyToConnect
\* and videoConnected still emit MyPlayerReady / MyVideoConnected, and
\* the other methods emit nothing.
C21_NoRoomNothingSent ==
    [][ (last'.op \in OutboundOps /\ room = Undefined) =>
            /\ sent' = <<>>
            /\ ~raised'
            /\ Session' = Session
            /\ emitted' =
                   IF last'.op = "readyToConnect"
                   THEN <<Ev("MY_PLAYER_READY", Undefined, "", "")>>
                   ELSE IF last'.op = "videoConnected"
                   THEN <<Ev("MY_PLAYER_VIDEO_CONNECTED", Undefined, "", "")>>
                   ELSE <<>> ]_vars

\* videoConnected() called while a join was pending and no room was set:
\* the local event went out, no message did.
C21_Witness ==
    /\ last.op = "videoConnected"
    /\ room = Undefined
    /\ \E i \in 1..Len(calls) : calls[i].status = "pending"
    /\ sent = <<>>
    /\ emitted = <<Ev("MY_PLAYER_VIDEO_CONNECTED", Undefined, "", "")>>
    /\ ~raised

====
